---- MODULE Spec2Model ----
(***************************************************************************)
(* Smart Warehouse API: the inventory ledger (items, orders), the stock    *)
(* mutation handlers of routes.py, the forecast and the background SMS     *)
(* notifications of alert.py.                                              *)
(***************************************************************************)
EXTENDS Integers, Sequences, FiniteSets, TLC

VARIABLES
    items,      \* table "items": sequence of [name, current_stock]; the row's id is its index
    orders,     \* table "orders": sequence of [item_id, quantity, date]
    credited,   \* history: per item, the stock it was created with plus every committed incoming quantity
    tasks,      \* background tasks handed over by answered requests, not yet run
    resp,       \* the last event: the request served (its input echoed) and its response, or the
                \* background task run and its outcome
    now,        \* the clock, in ticks
    req         \* requests in flight (one session each), for the interleaved specification

vars == <<items, orders, credited, tasks, resp, now, req>>

----------------------------------------------------------------------------
(* Bounds of the model *)

MaxOrders == 2
MaxRows == 2
MaxTasks == 2
MaxNow == 2
MaxStock == 7
MaxDebt == 2
NumReqs == 3
TicksPerDay == 2

(* Program constants *)

LowStockThreshold == 5
CriticalDays == 7
NoSalesDays == 999
DateMaxOrdinal == 3652059
StartDay == 739922

(* Inputs *)

Names == {"a", "b"}
StockInputs == {6}
QtyInputs == {-1, 2}
IdInputs == 1..(Cardinality(Names) + 1)

----------------------------------------------------------------------------
(* The store *)

NoItem == 0

ItemIds(its) == 1..Len(its)

\* db.query(models.Item).filter(models.Item.id == item_id).first()
FindById(its, item_id) == IF item_id \in ItemIds(its) THEN item_id ELSE NoItem

\* db.query(models.Item).filter(models.Item.name == name).first()
FindByName(its, name) ==
    LET hits == {i \in ItemIds(its) : its[i].name = name}
    IN  IF hits = {} THEN NoItem ELSE CHOOSE i \in hits : \A j \in hits : i <= j

RECURSIVE SumQty(_, _)
\* the sum of the quantities of the Order records of one item
SumQty(ords, item_id) ==
    IF ords = <<>> THEN 0
    ELSE (IF Head(ords).item_id = item_id THEN Head(ords).quantity ELSE 0)
         + SumQty(Tail(ords), item_id)

----------------------------------------------------------------------------
(* A request's session: the identity map of the items it loaded (orig: as   *)
(* loaded, view: as modified in memory), the Order objects it added, and    *)
(* the request's BackgroundTasks, processed counter and errors list.        *)

NewSession ==
    [orig |-> <<>>, view |-> <<>>, new_orders |-> <<>>, bg |-> <<>>,
     processed |-> 0, errors |-> <<>>]

\* .first() returns the object of the identity map when the row is already loaded
Load(s, its, item_id) ==
    IF item_id \in DOMAIN s.view THEN s
    ELSE [s EXCEPT !.orig = @ @@ (item_id :> its[item_id].current_stock),
                   !.view = @ @@ (item_id :> its[item_id].current_stock)]

\* db.commit(): UPDATE of every loaded row whose current_stock changed
Flush(its, s) ==
    [i \in ItemIds(its) |->
        IF i \in DOMAIN s.view /\ s.view[i] # s.orig[i]
        THEN [its[i] EXCEPT !.current_stock = s.view[i]]
        ELSE its[i]]

\* db.commit(): INSERT of the added Order objects, date = datetime.utcnow
InsertOrders(ords, s, t) ==
    ords \o [k \in 1..Len(s.new_orders) |->
                [item_id |-> s.new_orders[k].item_id,
                 quantity |-> s.new_orders[k].quantity,
                 date |-> t]]

\* the stocks a commit may write stay within the model's range
WithinRange(its, s) ==
    \A i \in DOMAIN s.view :
        /\ s.view[i] <= MaxStock \/ s.view[i] <= its[i].current_stock
        /\ s.view[i] >= -MaxDebt \/ s.view[i] >= its[i].current_stock

\* what the committed incoming quantities add to each item's credit
Credit(cr, s) ==
    [i \in 1..Len(cr) |-> IF i \in DOMAIN s.view THEN cr[i] + s.view[i] - s.orig[i] ELSE cr[i]]

\* background_tasks.add_task(send_sms_alert, item.name, item.current_stock)
AlertTask(name, stock) == [fn |-> "send_sms_alert", args |-> <<name, stock>>]

Response(op, status, rows, s, body) ==
    [op |-> op, status |-> status, rows |-> rows,
     processed |-> s.processed, errors |-> s.errors, body |-> body]

Event(op) == Response(op, 0, <<>>, NewSession, <<>>)

----------------------------------------------------------------------------
(* create_item *)

ItemCreate == [name : Names, current_stock : StockInputs]

create_item(item) ==
    /\ IF FindByName(items, item.name) # NoItem
       THEN /\ resp' = Response("create_item", 400, <<item>>, NewSession, <<>>)
            /\ UNCHANGED <<items, credited>>
       ELSE /\ items' = Append(items, [name |-> item.name, current_stock |-> item.current_stock])
            /\ credited' = Append(credited, item.current_stock)
            /\ resp' = Response("create_item", 200, <<item>>, NewSession,
                                <<[id |-> Len(items) + 1, name |-> item.name,
                                   current_stock |-> item.current_stock]>>)
    /\ UNCHANGED <<orders, tasks, now, req>>

----------------------------------------------------------------------------
(* create_order *)

OrderCreate == [item_id : IdInputs, quantity : QtyInputs]

\* lines 54-58: the query and the two checks; 0 when the order may proceed
create_order_check(s, its, order) ==
    IF FindById(its, order.item_id) = NoItem THEN 404
    ELSE IF Load(s, its, order.item_id).view[order.item_id] < order.quantity THEN 400
    ELSE 0

\* lines 61-63: item.current_stock -= quantity; db.add(new_order)
create_order_write(s, order) ==
    [s EXCEPT !.view[order.item_id] = @ - order.quantity,
              !.new_orders = Append(@, [item_id |-> order.item_id,
                                        quantity |-> order.quantity])]

\* the alert check with <= for <
create_order_alert_at_threshold(s, its, order) ==
    IF its[order.item_id].current_stock <= LowStockThreshold
    THEN [s EXCEPT !.bg = Append(@, AlertTask(its[order.item_id].name,
                                              its[order.item_id].current_stock))]
    ELSE s

\* lines 65-69: db.refresh(item), then the alert check on the refreshed stock
create_order_alert(s, its, order) ==
    IF its[order.item_id].current_stock < LowStockThreshold
    THEN [s EXCEPT !.bg = Append(@, AlertTask(its[order.item_id].name,
                                              its[order.item_id].current_stock))]
    ELSE s

\* create_order with the decrement committed before the stock check
create_order_result_write_first(its, ords, t, order) ==
    LET s1 == create_order_write(Load(NewSession, its, order.item_id), order)
        its1 == Flush(its, s1)
    IN  IF FindById(its, order.item_id) = NoItem
        THEN [status |-> 404, items |-> its, orders |-> ords, s |-> NewSession]
        ELSE IF its[order.item_id].current_stock < order.quantity
        THEN [status |-> 400, items |-> its1, orders |-> ords, s |-> NewSession]
        ELSE [status |-> 200, items |-> its1, orders |-> InsertOrders(ords, s1, t),
              s |-> create_order_alert(s1, its1, order)]

\* lines 52-71 on the committed store: the status, the store after it, the session
create_order_result(its, ords, t, order) ==
    LET err == create_order_check(NewSession, its, order)
        s1 == create_order_write(Load(NewSession, its, order.item_id), order)
        its1 == Flush(its, s1)
    IN  IF err # 0
        THEN [status |-> err, items |-> its, orders |-> ords, s |-> NewSession]
        ELSE [status |-> 200, items |-> its1, orders |-> InsertOrders(ords, s1, t),
              s |-> create_order_alert(s1, its1, order)]

create_order(order) ==
    LET out == create_order_result(items, orders, now, order)
    IN  /\ tasks = <<>>
        /\ Len(out.orders) <= MaxOrders
        /\ WithinRange(items, out.s)
        /\ items' = out.items
        /\ orders' = out.orders
        /\ tasks' = tasks \o out.s.bg
        /\ resp' = Response("create_order", out.status, <<order>>, out.s,
                            IF out.status = 200
                            THEN <<[id |-> order.item_id,
                                    name |-> out.items[order.item_id].name,
                                    current_stock |-> out.items[order.item_id].current_stock]>>
                            ELSE <<>>)
        /\ UNCHANGED <<credited, now, req>>

----------------------------------------------------------------------------
(* The CSV uploads. A cell of the parsed DataFrame is a number (kept in     *)
(* tenths, so that 2.5 is a cell) or NaN (an empty field).                   *)

Num(tenths) == [kind |-> "num", tenths |-> tenths]
NaN == [kind |-> "nan", tenths |-> 0]

\* int(row[...]) raises ValueError on NaN
IntRaises(cell) == cell.kind = "nan"

\* int(row[...]) on a number: truncation toward zero
ToInt(cell) ==
    IF cell.tenths >= 0 THEN cell.tenths \div 10 ELSE -((-cell.tenths) \div 10)

Row(item_id, quantity) == [item_id |-> item_id, quantity |-> quantity]

RowInputs ==
    { Row(Num(10), Num(40)), Row(Num(20), Num(-15)), Row(Num(30), Num(10)), Row(Num(10), NaN) }

\* three rows, the second naming an item that does not exist
ExampleBatch == <<Row(Num(10), Num(40)), Row(Num(30), Num(10)), Row(Num(20), Num(-15))>>

Batches == UNION {[1..n -> RowInputs] : n \in 0..MaxRows} \cup {ExampleBatch}

\* errors.append(...): the row's index and which of the two messages
AddError(s, index, kind) ==
    [s EXCEPT !.errors = Append(@, [row |-> index, kind |-> kind])]

\* an upload_csv iteration that decrements the stock and adds no Order
upload_csv_row_no_order(s, its, index, row) ==
    IF IntRaises(row.item_id) \/ IntRaises(row.quantity)
    THEN AddError(s, index, "exception")
    ELSE LET item_id == ToInt(row.item_id)
             quantity == ToInt(row.quantity)
         IN  IF FindById(its, item_id) = NoItem
             THEN AddError(s, index, "not_found")
             ELSE LET s1 == Load(s, its, item_id)
                  IN  [s1 EXCEPT !.view[item_id] = @ - quantity, !.processed = @ + 1]

\* lines 84-104: one iteration of upload_csv's loop; index is the DataFrame's, from 0
upload_csv_row(s, its, index, row) ==
    IF IntRaises(row.item_id) \/ IntRaises(row.quantity)
    THEN AddError(s, index, "exception")
    ELSE LET item_id == ToInt(row.item_id)
             quantity == ToInt(row.quantity)
         IN  IF FindById(its, item_id) = NoItem
             THEN AddError(s, index, "not_found")
             ELSE LET s1 == Load(s, its, item_id)
                      stock == s1.view[item_id] - quantity
                      s2 == [s1 EXCEPT
                               !.view[item_id] = stock,
                               !.new_orders = Append(@, [item_id |-> item_id,
                                                         quantity |-> quantity])]
                      s3 == IF stock < LowStockThreshold
                            THEN [s2 EXCEPT !.bg = Append(@, AlertTask(its[item_id].name, stock))]
                            ELSE s2
                  IN  [s3 EXCEPT !.processed = @ + 1]

\* an upload_income_csv iteration with upload_csv's alert check left in
upload_income_csv_row_alert(s, its, index, row) ==
    IF IntRaises(row.item_id) \/ IntRaises(row.quantity)
    THEN AddError(s, index, "exception")
    ELSE LET item_id == ToInt(row.item_id)
             quantity == ToInt(row.quantity)
         IN  IF FindById(its, item_id) = NoItem
             THEN AddError(s, index, "not_found")
             ELSE LET s1 == Load(s, its, item_id)
                      stock == s1.view[item_id] + quantity
                  IN  [s1 EXCEPT !.view[item_id] = stock,
                                 !.processed = @ + 1,
                                 !.bg = IF stock < LowStockThreshold
                                        THEN Append(@, AlertTask(its[item_id].name, stock))
                                        ELSE @]

\* lines 120-133: one iteration of upload_income_csv's loop
upload_income_csv_row(s, its, index, row) ==
    IF IntRaises(row.item_id) \/ IntRaises(row.quantity)
    THEN AddError(s, index, "exception")
    ELSE LET item_id == ToInt(row.item_id)
             quantity == ToInt(row.quantity)
         IN  IF FindById(its, item_id) = NoItem
             THEN AddError(s, index, "not_found")
             ELSE LET s1 == Load(s, its, item_id)
                  IN  [s1 EXCEPT !.view[item_id] = @ + quantity,
                                 !.processed = @ + 1]

RECURSIVE upload_csv_rows_abort(_, _, _, _)
\* the loop left at the first row that fails
upload_csv_rows_abort(s, its, rows, k) ==
    IF k > Len(rows) \/ s.errors # <<>> THEN s
    ELSE upload_csv_rows_abort(upload_csv_row(s, its, k - 1, rows[k]), its, rows, k + 1)

RECURSIVE upload_csv_rows(_, _, _, _)
\* for index, row in df.iterrows(), from row k on
upload_csv_rows(s, its, rows, k) ==
    IF k > Len(rows) THEN s
    ELSE upload_csv_rows(upload_csv_row(s, its, k - 1, rows[k]), its, rows, k + 1)

RECURSIVE upload_income_csv_rows(_, _, _, _)
upload_income_csv_rows(s, its, rows, k) ==
    IF k > Len(rows) THEN s
    ELSE upload_income_csv_rows(upload_income_csv_row(s, its, k - 1, rows[k]), its, rows, k + 1)

upload_csv(rows) ==
    LET s == upload_csv_rows(NewSession, items, rows, 1)
    IN  /\ Len(orders) + Len(s.new_orders) <= MaxOrders
        /\ tasks = <<>>
        /\ Len(s.bg) <= MaxTasks
        /\ WithinRange(items, s)
        /\ items' = Flush(items, s)
        /\ orders' = InsertOrders(orders, s, now)
        /\ tasks' = tasks \o s.bg
        /\ resp' = Response("upload_csv", 200, rows, s, <<>>)
        /\ UNCHANGED <<credited, now, req>>

upload_income_csv(rows) ==
    LET s == upload_income_csv_rows(NewSession, items, rows, 1)
    IN  /\ tasks = <<>>
        /\ WithinRange(items, s)
        /\ items' = Flush(items, s)
        /\ orders' = InsertOrders(orders, s, now)
        /\ credited' = Credit(credited, s)
        /\ tasks' = tasks \o s.bg
        /\ resp' = Response("upload_income_csv", 200, rows, s, <<>>)
        /\ UNCHANGED <<now, req>>

----------------------------------------------------------------------------
(* The forecast *)

Max(S) == CHOOSE x \in S : \A y \in S : y <= x
Min(S) == CHOOSE x \in S : \A y \in S : x <= y
Abs(x) == IF x >= 0 THEN x ELSE -x

\* round(n / d, 2) in hundredths, d > 0: to the nearest, a tie to the even one
Round2(n, d) ==
    LET q == (100 * n) \div d
        r == (100 * n) % d
    IN  IF 2 * r < d THEN q
        ELSE IF 2 * r > d THEN q + 1
        ELSE IF q % 2 = 0 THEN q ELSE q + 1

\* int(a / b), b # 0: the quotient truncated toward zero
TruncDiv(a, b) ==
    IF (a >= 0) = (b > 0) THEN Abs(a) \div Abs(b) ELSE -(Abs(a) \div Abs(b))

\* the span counted without the "+ 1" of line 24, so that line 27 is what handles
\* a history within one day
calculate_burn_rate_no_plus_one(item_id, ords) ==
    LET mine == {k \in 1..Len(ords) : ords[k].item_id = item_id}
        dates == {ords[k].date : k \in mine}
        total_days == (Max(dates) - Min(dates)) \div TicksPerDay
        total_sold == SumQty(ords, item_id)
    IN  IF mine = {} THEN 0
        ELSE IF total_days = 0 THEN 100 * total_sold
        ELSE Round2(total_sold, total_days)

\* calculate_burn_rate, in hundredths of a unit per day
calculate_burn_rate(item_id, ords) ==
    LET mine == {k \in 1..Len(ords) : ords[k].item_id = item_id}
        dates == {ords[k].date : k \in mine}
        total_days == (Max(dates) - Min(dates)) \div TicksPerDay + 1
        total_sold == SumQty(ords, item_id)
    IN  IF mine = {} THEN 0
        ELSE IF total_days = 0 THEN 100 * total_sold
        ELSE Round2(total_sold, total_days)

\* datetime.now().date(), as the day's ordinal
Today(t) == StartDay + t \div TicksPerDay

\* item.current_stock / avg_sales is a division of IEEE-754 doubles: these are the
\* (|stock|, |avg_sales| in hundredths) pairs, among the stocks and burn rates of
\* ForecastStocks, ForecastQtys and ForecastDates, whose exact quotient is a whole
\* number and whose double quotient is the double just below it
\* (335 / 0.67 = 499.99999999999994); for every other pair of them int() of the
\* double quotient is the truncated exact quotient
FloatQuotientShort == {<<335, 67>>}

\* int(stock / avg_sales), avg_sales # 0 in hundredths
FloatDivInt(stock, avg_sales) ==
    LET exact == TruncDiv(100 * stock, avg_sales)
    IN  IF <<Abs(stock), Abs(avg_sales)>> \in FloatQuotientShort
        THEN (IF exact > 0 THEN exact - 1 ELSE exact + 1)
        ELSE exact

\* lines 150-155: days_remaining
days_remaining(stock, avg_sales) ==
    IF avg_sales = 0 THEN NoSalesDays ELSE FloatDivInt(stock, avg_sales)

\* line 155: datetime.now() + timedelta(days=...) raises OverflowError outside date.min..date.max
DateOverflow(t, days) == Today(t) + days > DateMaxOrdinal \/ Today(t) + days < 1

\* an entry whose days count down from the day the clock started
Forecast_aging(its, ords, t, i) ==
    LET avg_sales == calculate_burn_rate(i, ords)
        days == days_remaining(its[i].current_stock, avg_sales) - (Today(t) - StartDay)
    IN  [item_id |-> i,
         item_name |-> its[i].name,
         current_stock |-> its[i].current_stock,
         avg_daily_sales |-> avg_sales,
         days_until_out_of_stock |-> days,
         predicted_stockout_date |-> IF avg_sales = 0 THEN Today(t) ELSE Today(t) + days,
         recommendation |-> IF days < CriticalDays THEN "CRITICAL ORDER!" ELSE "Healthy"]

\* lines 157-167: one entry of the forecast
Forecast(its, ords, t, i) ==
    LET avg_sales == calculate_burn_rate(i, ords)
        days == days_remaining(its[i].current_stock, avg_sales)
    IN  [item_id |-> i,
         item_name |-> its[i].name,
         current_stock |-> its[i].current_stock,
         avg_daily_sales |-> avg_sales,
         days_until_out_of_stock |-> days,
         predicted_stockout_date |-> IF avg_sales = 0 THEN Today(t) ELSE Today(t) + days,
         recommendation |-> IF days < CriticalDays THEN "CRITICAL ORDER!" ELSE "Healthy"]

ReportHeader == <<"Warehouse Analytics Report:">>
HealthyLine == <<"All inventory is currently Healthy!">>
\* f"- {item.name}: {item.current_stock} left ({days_remaining} days)"
CriticalLine(f) == <<"-", f.item_name, f.current_stock, "left", f.days_until_out_of_stock, "days">>

RECURSIVE SmsLines(_, _)
\* lines 145-171: the lines appended while looping over the forecasts from entry k on
SmsLines(forecasts, k) ==
    IF k > Len(forecasts) THEN <<>>
    ELSE (IF forecasts[k].days_until_out_of_stock < CriticalDays
          THEN <<CriticalLine(forecasts[k])>> ELSE <<>>)
         \o SmsLines(forecasts, k + 1)

\* the report with the closing line appended whatever the lines before it
ReportText_always_healthy(forecasts) ==
    Append(<<ReportHeader>> \o SmsLines(forecasts, 1), HealthyLine)

\* lines 145-177: the report text, as its lines
ReportText(forecasts) ==
    LET sms_lines == <<ReportHeader>> \o SmsLines(forecasts, 1)
    IN  IF Len(sms_lines) = 1 THEN Append(sms_lines, HealthyLine) ELSE sms_lines

\* background_tasks.add_task(send_analytics_sms, report_text)
ReportTask(report_text) == [fn |-> "send_analytics_sms", args |-> <<report_text>>]

get_forecast ==
    LET forecasts == [i \in ItemIds(items) |-> Forecast(items, orders, now, i)]
        raises == \E i \in ItemIds(items) :
                      /\ forecasts[i].avg_daily_sales # 0
                      /\ DateOverflow(now, forecasts[i].days_until_out_of_stock)
    IN  /\ tasks = <<>>
        /\ IF raises
           THEN /\ resp' = Response("get_forecast", 500, <<>>, NewSession, <<>>)
                /\ UNCHANGED tasks
           ELSE /\ tasks' = <<ReportTask(ReportText(forecasts))>>
                /\ resp' = Response("get_forecast", 200, <<>>, NewSession, forecasts)
        /\ UNCHANGED <<items, orders, credited, now, req>>

----------------------------------------------------------------------------
(* The background tasks, run after the response: alert.py *)

\* send_sms_alert, send_analytics_sms: try: client.messages.create(...) except Exception: print(...)
send_sms(task, transport_ok) ==
    [op |-> task.fn, status |-> 0, rows |-> <<>>, processed |-> 0, errors |-> <<>>,
     body |-> <<IF transport_ok THEN "sent" ELSE "failed">>]

\* the exception of a failed delivery escapes: the tasks queued behind it never run
AfterTask_raise(queue, transport_ok) == IF transport_ok THEN Tail(queue) ELSE <<>>

\* what is left to run once the head task has returned
AfterTask(queue, transport_ok) == Tail(queue)

RunTask(transport_ok) ==
    /\ tasks # <<>>
    /\ tasks' = AfterTask(tasks, transport_ok)
    /\ resp' = send_sms(Head(tasks), transport_ok)
    /\ UNCHANGED <<items, orders, credited, now, req>>

----------------------------------------------------------------------------
(* The handlers step by step, for requests served concurrently: one session *)
(* per request, every statement that reads or writes the store a step.      *)

Reqs == 1..NumReqs

Idle == [pc |-> "idle", op |-> "none", input |-> <<>>, s |-> NewSession, k |-> 0, status |-> 0]

Done(r, status) == [req[r] EXCEPT !.pc = "done", !.status = status]

\* the slots are taken in order, each by one request
Free(r) == req[r].pc = "idle" /\ \A q \in Reqs : q < r => req[q].pc # "idle"

\* create_item, lines 41-43: the query by name and the check
ci_query(r, item) ==
    /\ Free(r)
    /\ req' = [req EXCEPT ![r] =
                 IF FindByName(items, item.name) # NoItem
                 THEN [Idle EXCEPT !.pc = "done", !.op = "create_item", !.input = item, !.status = 400]
                 ELSE [Idle EXCEPT !.pc = "ci_commit", !.op = "create_item", !.input = item]]
    /\ UNCHANGED <<items, orders, credited, tasks, resp, now>>

\* create_item, lines 45-49: the INSERT and the commit
ci_commit(r) ==
    /\ req[r].pc = "ci_commit"
    /\ items' = Append(items, [name |-> req[r].input.name,
                               current_stock |-> req[r].input.current_stock])
    /\ credited' = Append(credited, req[r].input.current_stock)
    /\ req' = [req EXCEPT ![r] = Done(r, 200)]
    /\ UNCHANGED <<orders, tasks, resp, now>>

\* create_order, lines 54-58: the query and the checks
co_query(r, order) ==
    /\ Free(r)
    /\ LET err == create_order_check(NewSession, items, order)
       IN  req' = [req EXCEPT ![r] =
                     IF err # 0
                     THEN [Idle EXCEPT !.pc = "done", !.op = "create_order", !.input = order, !.status = err]
                     ELSE [Idle EXCEPT !.pc = "co_write", !.op = "create_order", !.input = order,
                                       !.s = Load(NewSession, items, order.item_id)]]
    /\ UNCHANGED <<items, orders, credited, tasks, resp, now>>

\* create_order, lines 61-63: the decrement and the new Order, in the session
co_write(r) ==
    /\ req[r].pc = "co_write"
    /\ req' = [req EXCEPT ![r].pc = "co_commit",
                          ![r].s = create_order_write(req[r].s, req[r].input)]
    /\ UNCHANGED <<items, orders, credited, tasks, resp, now>>

\* create_order, line 64: db.commit()
co_commit(r) ==
    /\ req[r].pc = "co_commit"
    /\ Len(orders) < MaxOrders
    /\ WithinRange(items, req[r].s)
    /\ items' = Flush(items, req[r].s)
    /\ orders' = InsertOrders(orders, req[r].s, now)
    /\ req' = [req EXCEPT ![r].pc = "co_refresh"]
    /\ UNCHANGED <<credited, tasks, resp, now>>

\* create_order, lines 65-71: db.refresh(item), the alert check, the response
co_refresh(r) ==
    /\ req[r].pc = "co_refresh"
    /\ LET s2 == create_order_alert(req[r].s, items, req[r].input)
       IN  /\ tasks' = tasks \o s2.bg
           /\ req' = [req EXCEPT ![r] = [Done(r, 200) EXCEPT !.s = s2]]
    /\ UNCHANGED <<items, orders, credited, resp, now>>

\* the two uploads are async def and never await once the file is read: the event
\* loop runs one of them at a time, beside the def handlers of the thread pool
LoopBusy == \E q \in Reqs : req[q].pc = "rows"

\* upload_csv and upload_income_csv, up to the loop: the file is read and parsed
csv_open(r, op) ==
    /\ Free(r)
    /\ ~LoopBusy
    /\ req' = [req EXCEPT ![r] = [Idle EXCEPT !.pc = "rows", !.op = op]]
    /\ UNCHANGED <<items, orders, credited, tasks, resp, now>>

\* one iteration of the loop, on the file's next row
csv_row(r, row) ==
    /\ req[r].pc = "rows"
    /\ req[r].k < MaxRows
    /\ req' = [req EXCEPT
                 ![r].k = @ + 1,
                 ![r].s = IF req[r].op = "upload_csv"
                          THEN upload_csv_row(@, items, req[r].k, row)
                          ELSE upload_income_csv_row(@, items, req[r].k, row)]
    /\ UNCHANGED <<items, orders, credited, tasks, resp, now>>

\* after the last row: db.commit() and the response
csv_commit(r) ==
    /\ req[r].pc = "rows"
    /\ Len(orders) + Len(req[r].s.new_orders) <= MaxOrders
    /\ WithinRange(items, req[r].s)
    /\ items' = Flush(items, req[r].s)
    /\ orders' = InsertOrders(orders, req[r].s, now)
    /\ credited' = IF req[r].op = "upload_income_csv" THEN Credit(credited, req[r].s) ELSE credited
    /\ tasks' = tasks \o req[r].s.bg
    /\ req' = [req EXCEPT ![r] = Done(r, 200)]
    /\ UNCHANGED <<resp, now>>

\* a row this session loaded has been changed by a transaction committed since
Stale(its, s) == \E i \in DOMAIN s.orig : its[i].current_stock # s.orig[i]

\* db.commit() raises under an engine whose isolation rejects the commit of a
\* transaction that read a row changed since: the request fails, nothing is written
commit_conflict(r) ==
    /\ req[r].pc \in {"co_commit", "rows"}
    /\ Stale(items, req[r].s)
    /\ req' = [req EXCEPT ![r] = Done(r, 500)]
    /\ UNCHANGED <<items, orders, credited, tasks, resp, now>>

----------------------------------------------------------------------------
(* The clock *)

Tick ==
    /\ now < MaxNow
    /\ now' = now + 1
    /\ resp' = Event("tick")
    /\ UNCHANGED <<items, orders, credited, tasks, req>>

----------------------------------------------------------------------------

Init ==
    /\ items = <<>>
    /\ orders = <<>>
    /\ credited = <<>>
    /\ tasks = <<>>
    /\ resp = Event("start")
    /\ now = 0
    /\ req = [r \in Reqs |-> Idle]

Next ==
    \/ \E item \in ItemCreate : create_item(item)
    \/ \E order \in OrderCreate : create_order(order)
    \/ \E rows \in Batches : upload_csv(rows)
    \/ \E rows \in Batches : upload_income_csv(rows)
    \/ get_forecast
    \/ \E transport_ok \in BOOLEAN : RunTask(transport_ok)

Spec == Init /\ [][Next]_vars

\* the forecast over the stores that item creations, orders and uploads leave:
\* up to two items with distinct names, and an Order log whose dates do not decrease
ForecastStocks == {0, 10, 50, 335, 4000000}
ForecastQtys == {-1, 1, 2, 5, 7}
\* Order dates in ticks: the same day twice, two and three days on, 500 days on
ForecastDates == {0, 1, 2 * TicksPerDay, 3 * TicksPerDay, 500 * TicksPerDay}
ForecastNows == {0, 1, 500 * TicksPerDay}

ForecastItems ==
    {its \in UNION {[1..n -> [name : Names, current_stock : ForecastStocks]] : n \in 0..Cardinality(Names)} :
        \A i, j \in 1..Len(its) : i # j => its[i].name # its[j].name}

ForecastOrders(its, t) ==
    {ords \in UNION {[1..n -> [item_id : ItemIds(its), quantity : ForecastQtys,
                                  date : {d \in ForecastDates : d <= t}]] :
                        n \in 0..MaxOrders} :
        \A k \in 1..(Len(ords) - 1) : ords[k].date <= ords[k + 1].date}

InitForecast ==
    /\ now \in ForecastNows
    /\ items \in ForecastItems
    /\ orders \in ForecastOrders(items, now)
    /\ credited = [i \in ItemIds(items) |-> items[i].current_stock + SumQty(orders, i)]
    /\ tasks = <<>>
    /\ resp = Event("start")
    /\ req = [r \in Reqs |-> Idle]

NextForecast ==
    \/ get_forecast
    \/ \E transport_ok \in BOOLEAN : RunTask(transport_ok)
    \/ Tick

SpecForecast == InitForecast /\ [][NextForecast]_vars

\* the orders of concurrent requests: also a quantity of which one fits the stock
\* of StockInputs and two do not
ConcOrderCreate == [item_id : IdInputs, quantity : QtyInputs \cup {4}]

\* requests served concurrently
NextConc ==
    \/ \E r \in Reqs, item \in ItemCreate : ci_query(r, item)
    \/ \E r \in Reqs : ci_commit(r)
    \/ \E r \in Reqs, order \in ConcOrderCreate : co_query(r, order)
    \/ \E r \in Reqs : co_write(r)
    \/ \E r \in Reqs : co_commit(r)
    \/ \E r \in Reqs : co_refresh(r)
    \/ \E r \in Reqs, op \in {"upload_csv", "upload_income_csv"} : csv_open(r, op)
    \/ \E r \in Reqs, row \in RowInputs : csv_row(r, row)
    \/ \E r \in Reqs : csv_commit(r)
    \/ \E r \in Reqs : commit_conflict(r)

SpecConc == Init /\ [][NextConc]_vars

----------------------------------------------------------------------------
(* Properties *)

\* the rows of a batch that the loop applies: both cells are numbers and the item exists
Applies(its, row) ==
    /\ ~IntRaises(row.item_id)
    /\ ~IntRaises(row.quantity)
    /\ FindById(its, ToInt(row.item_id)) # NoItem

RECURSIVE AppliedQty(_, _, _, _)
\* the sum of the quantities of the applied rows among the first n that name item i
AppliedQty(its, rows, n, i) ==
    IF n = 0 THEN 0
    ELSE AppliedQty(its, rows, n - 1, i)
         + (IF Applies(its, rows[n]) /\ ToInt(rows[n].item_id) = i
            THEN ToInt(rows[n].quantity) ELSE 0)

\* C1: after any sequence of item creations, single outgoing movements, batch
\* outgoing uploads and batch incoming uploads, every item's committed
\* current_stock is >= 0.
C1_StockNeverNegative ==
    \A i \in ItemIds(items) : items[i].current_stock >= 0

\* C2: a create_order that fails, with 400 because quantity > current_stock or
\* with 404 because the item id does not exist, leaves every item's stock, the
\* Order log and the task queue as they were.
C2_FailedOrderHasNoEffect ==
    [][ (resp'.op = "create_order" /\ resp'.status # 200) =>
          LET order == resp'.rows[1]
          IN  /\ resp'.status \in {400, 404}
              /\ resp'.status = 404 <=> order.item_id \notin ItemIds(items)
              /\ resp'.status = 400 =>
                     items[order.item_id].current_stock < order.quantity
              /\ items' = items
              /\ orders' = orders
              /\ credited' = credited
              /\ tasks' = tasks ]_vars

\* a create_order was refused for lack of stock while the Order log already held records
C2_Witness ==
    /\ resp.op = "create_order"
    /\ resp.status = 400
    /\ orders # <<>>

\* C3: in upload_csv, a row whose quantity exceeds the stock the item has when
\* the row is processed is rejected: it is listed in errors, it is not counted
\* in processed, it appends no Order record and it does not decrement the stock.
C3_BatchRowOverStockRejected ==
    [][ resp'.op = "upload_csv" =>
          LET rows == resp'.rows
              before(k) == upload_csv_rows(NewSession, items, SubSeq(rows, 1, k - 1), 1)
              over == {k \in 1..Len(rows) :
                         /\ Applies(items, rows[k])
                         /\ ToInt(rows[k].quantity) >
                              Load(before(k), items, ToInt(rows[k].item_id)).view[ToInt(rows[k].item_id)]}
              failed == {k \in 1..Len(rows) : ~Applies(items, rows[k])} \cup over
          IN  /\ \A k \in over : \E j \in 1..Len(resp'.errors) : resp'.errors[j].row = k - 1
              /\ resp'.processed = Len(rows) - Cardinality(failed)
              /\ Len(orders') = Len(orders) + Len(rows) - Cardinality(failed)
              /\ \A k \in over :
                     (\A m \in 1..Len(rows) :
                          (m # k /\ Applies(items, rows[m])) =>
                              ToInt(rows[m].item_id) # ToInt(rows[k].item_id))
                     => items'[ToInt(rows[k].item_id)] = items[ToInt(rows[k].item_id)] ]_vars

\* C4: in every committed state each item's current_stock is its initial stock
\* plus the committed incoming quantities minus the quantities of its Order
\* records: no decrement without its Order record, no Order record without its
\* decrement.
C4_StockMatchesOrderLog ==
    /\ Len(credited) = Len(items)
    /\ \A i \in ItemIds(items) :
           items[i].current_stock = credited[i] - SumQty(orders, i)

\* a batch of outgoing rows was committed for an item that had also been restocked
C4_Witness ==
    /\ resp.op = "upload_csv"
    /\ resp.processed >= 1
    /\ \E i \in ItemIds(items) :
           /\ SumQty(orders, i) # 0
           /\ credited[i] \notin StockInputs

\* no request holds an open session
Quiescent == \A r \in Reqs : req[r].pc \in {"idle", "done"}

\* the store holds no negative stock and no Order of quantity <= 0
PlainStore ==
    /\ \A i \in ItemIds(items) : items[i].current_stock >= 0
    /\ \A k \in 1..Len(orders) : orders[k].quantity > 0

\* C5: when concurrent outgoing and incoming requests on the same item have all
\* ended, no update is lost: the item's current_stock is its starting stock plus
\* the committed incoming quantities minus the committed outgoing quantities
\* (stated here for the stores with stocks >= 0 and Order quantities > 0 alone).
C5_NoLostUpdate ==
    (Quiescent /\ PlainStore) =>
        \A i \in ItemIds(items) :
            items[i].current_stock = credited[i] - SumQty(orders, i)

\* C6: a successful create_order, and every applied row of an upload_csv,
\* enqueues exactly one alert with the item's name and the stock after the
\* decrement when that stock is < 5, and none when it is >= 5.
C6_AlertOnLowStock ==
    [][ /\ (resp'.op = "create_order" /\ resp'.status = 200) =>
              LET order == resp'.rows[1]
                  after == items[order.item_id].current_stock - order.quantity
              IN  /\ items'[order.item_id].current_stock = after
                  /\ tasks' = tasks \o
                       (IF after < 5
                        THEN <<[fn |-> "send_sms_alert",
                                args |-> <<items[order.item_id].name, after>>]>>
                        ELSE <<>>)
        /\ resp'.op = "upload_csv" =>
              LET rows == resp'.rows
                  applied == {k \in 1..Len(rows) : Applies(items, rows[k])}
                  id(k) == ToInt(rows[k].item_id)
                  after(k) == items[id(k)].current_stock - AppliedQty(items, rows, k, id(k))
                  low == {k \in applied : after(k) < 5}
                  new == SubSeq(tasks', Len(tasks) + 1, Len(tasks'))
              IN  /\ SubSeq(tasks', 1, Len(tasks)) = tasks
                  /\ Len(new) = Cardinality(low)
                  /\ \A k \in low :
                         new[Cardinality({m \in low : m <= k})] =
                             [fn |-> "send_sms_alert",
                              args |-> <<items[id(k)].name, after(k)>>] ]_vars

\* a create_order took an item from 6 to 4 and one alert for 4 is queued
C6_Witness ==
    /\ resp.op = "create_order"
    /\ resp.status = 200
    /\ resp.rows[1].quantity = 2
    /\ resp.body[1].current_stock = 4
    /\ tasks = <<[fn |-> "send_sms_alert", args |-> <<resp.body[1].name, 4>>]>>

\* an outgoing movement left the stock at 5 or more and queued nothing
C6_WitnessNoAlert ==
    /\ resp.op = "create_order"
    /\ resp.status = 200
    /\ resp.rows[1].quantity = 2
    /\ resp.body[1].current_stock = 5
    /\ tasks = <<>>

\* C7: in upload_csv and upload_income_csv a failing row (unknown item id, or a
\* cell that is no number) never aborts the batch: every other row is applied
\* and committed, processed counts the applied rows, errors holds one entry per
\* failed row with its position, and processed + len(errors) is the number of rows.
C7_BatchRowErrorsCollected ==
    [][ resp'.op \in {"upload_csv", "upload_income_csv"} =>
          LET rows == resp'.rows
              applied == {k \in 1..Len(rows) : Applies(items, rows[k])}
              failed == (1..Len(rows)) \ applied
              sign == IF resp'.op = "upload_csv" THEN -1 ELSE 1
          IN  /\ resp'.status = 200
              /\ resp'.processed = Cardinality(applied)
              /\ resp'.processed + Len(resp'.errors) = Len(rows)
              /\ Len(resp'.errors) = Cardinality(failed)
              /\ \A k \in failed :
                     resp'.errors[Cardinality({m \in failed : m <= k})].row = k - 1
              /\ Len(items') = Len(items)
              /\ \A i \in ItemIds(items) :
                     items'[i].current_stock =
                         items[i].current_stock + sign * AppliedQty(items, rows, Len(rows), i)
              /\ resp'.op = "upload_csv" =>
                     /\ Len(orders') = Len(orders) + Cardinality(applied)
                     /\ \A k \in applied :
                            LET o == orders'[Len(orders) + Cardinality({m \in applied : m <= k})]
                            IN  /\ o.item_id = ToInt(rows[k].item_id)
                                /\ o.quantity = ToInt(rows[k].quantity) ]_vars

\* the three-row batch whose second row names an item that does not exist:
\* processed = 2, one error for that row, the two other rows committed
C7_Witness ==
    /\ resp.op = "upload_csv"
    /\ resp.rows = ExampleBatch
    /\ resp.processed = 2
    /\ Len(resp.errors) = 1
    /\ resp.errors[1].row = 1
    /\ Len(orders) = 2

\* C8: every applied row of upload_income_csv raises the item's current_stock
\* by the row's quantity; the upload leaves the Order log and every other item
\* as they were and enqueues no alert, whatever the resulting stock.
C8_IncomingOnlyAddsStock ==
    [][ resp'.op = "upload_income_csv" =>
          LET rows == resp'.rows
              named == {ToInt(rows[k].item_id) : k \in {m \in 1..Len(rows) : Applies(items, rows[m])}}
          IN  /\ orders' = orders
              /\ tasks' = tasks
              /\ Len(items') = Len(items)
              /\ \A i \in ItemIds(items) :
                     /\ items'[i].name = items[i].name
                     /\ i \notin named => items'[i] = items[i]
                     /\ items'[i].current_stock - items[i].current_stock
                            = AppliedQty(items, rows, Len(rows), i)
              /\ \A i \in ItemIds(items) :
                     credited'[i] - credited[i] = AppliedQty(items, rows, Len(rows), i) ]_vars

\* an incoming row was applied to an item whose stock stays below 5, another
\* item exists, and nothing is queued
C8_Witness ==
    /\ resp.op = "upload_income_csv"
    /\ resp.processed >= 1
    /\ Len(items) = 2
    /\ Applies(items, resp.rows[1])
    /\ items[ToInt(resp.rows[1].item_id)].current_stock < 5
    /\ tasks = <<>>

\* C9: when the transport raises inside send_sms_alert or send_analytics_sms
\* the exception is swallowed: the committed stock and Order log stay as they
\* are, the task returns, the tasks queued behind it stay queued and the failed
\* one is not queued again.
C9_NotifierFailureSwallowed ==
    [][ (resp'.op \in {"send_sms_alert", "send_analytics_sms"} /\ resp'.body = <<"failed">>) =>
          /\ items' = items
          /\ orders' = orders
          /\ credited' = credited
          /\ tasks # <<>>
          /\ tasks' = Tail(tasks)
          /\ resp'.status = 0 ]_vars

\* a delivery failed while another task was still queued behind it
C9_Witness ==
    /\ resp.op = "send_sms_alert"
    /\ resp.body = <<"failed">>
    /\ tasks # <<>>
    /\ orders # <<>>

\* C10: every run of get_forecast enqueues exactly one report notification, for
\* any number of items and any number of critical items (stated here for the
\* stores with stocks >= 0 and Order quantities > 0 alone).
C10_OneReportPerForecast ==
    [][ (resp'.op = "get_forecast" /\ PlainStore) =>
          /\ Len(tasks') = Len(tasks) + 1
          /\ SubSeq(tasks', 1, Len(tasks)) = tasks
          /\ tasks'[Len(tasks')].fn = "send_analytics_sms" ]_vars

----------------------------------------------------------------------------
(* The forecast's results, read from the response of a get_forecast that *)
(* returned: resp.body[i] is the entry of item i.                        *)

Returned == resp.op = "get_forecast" /\ resp.status = 200

\* the positions in the Order log of the Orders of item i
OrdersOf(i) == {k \in 1..Len(orders) : orders[k].item_id = i}

\* C11: for every item the forecast returns days_until_out_of_stock = 999 when
\* avg_daily_sales is 0 and floor(current_stock / avg_daily_sales) otherwise, and
\* recommendation "CRITICAL ORDER!" exactly when days_until_out_of_stock < 7 and
\* "Healthy" otherwise (stated here for the stores with stocks >= 0 and Order
\* quantities > 0 alone; avg_daily_sales is in hundredths).
C11_DaysAndRecommendation ==
    (Returned /\ PlainStore) =>
        \A i \in ItemIds(items) :
            LET f == resp.body[i]
            IN  /\ f.days_until_out_of_stock =
                       IF f.avg_daily_sales = 0 THEN 999
                       ELSE (100 * f.current_stock) \div f.avg_daily_sales
                /\ f.recommendation =
                       IF f.days_until_out_of_stock < 7 THEN "CRITICAL ORDER!" ELSE "Healthy"

\* C12: for every Order history the mutation operations can produce, the burn
\* rate is >= 0, and it is 0 only when the item has no Order records (stated here
\* for the stores with stocks >= 0 and Order quantities > 0 alone).
C12_BurnRateNonNegative ==
    (Returned /\ PlainStore) =>
        \A i \in ItemIds(items) :
            /\ resp.body[i].avg_daily_sales >= 0
            /\ resp.body[i].avg_daily_sales = 0 => OrdersOf(i) = {}

\* C13: for an item with Orders the burn rate is total_qty / span_days to 2
\* decimals, where span_days is the whole days between its earliest and its
\* latest Order plus 1; span_days >= 1, and a history within one day gives
\* total_qty itself.
C13_BurnRateIsTotalOverSpan ==
    Returned =>
        \A i \in ItemIds(items) :
            OrdersOf(i) # {} =>
                \E a, b \in OrdersOf(i) :
                    /\ \A k \in OrdersOf(i) : orders[a].date <= orders[k].date
                                                /\ orders[k].date <= orders[b].date
                    /\ LET span_days == (orders[b].date - orders[a].date) \div TicksPerDay + 1
                           total_qty == SumQty(orders, i)
                           avg == resp.body[i].avg_daily_sales
                       IN  /\ span_days >= 1
                           /\ 2 * Abs(100 * total_qty - avg * span_days) <= span_days
                           /\ span_days = 1 => avg = 100 * total_qty

\* Orders of 5 and 7 three days apart: span 4, burn rate 3.0
C13_Witness ==
    /\ Returned
    /\ \E i \in ItemIds(items) :
           /\ orders = <<[item_id |-> i, quantity |-> 5, date |-> 0],
                         [item_id |-> i, quantity |-> 7, date |-> 3 * TicksPerDay]>>
           /\ resp.body[i].avg_daily_sales = 300

\* a forecast entry without its predicted_stockout_date
Undated(f) == [f EXCEPT !.predicted_stockout_date = 0]

\* the times at which a run is compared with the run at hand
RunTimes == ForecastNows \cup 0..MaxNow

\* what a run of get_forecast at time t over the store at hand returns
RunAt(t) == [i \in ItemIds(items) |-> Forecast(items, orders, t, i)]

\* a run at time t over the store at hand returns (no date overflows)
ReturnsAt(t) ==
    \A i \in ItemIds(items) :
        RunAt(t)[i].avg_daily_sales # 0 => ~DateOverflow(t, RunAt(t)[i].days_until_out_of_stock)

\* C14: a run of get_forecast leaves every item's current_stock and the Order log
\* unchanged, and a run at any other time over the same store that returns gives
\* the same list, entry by entry, apart from predicted_stockout_date, and the
\* same report text.
C14_ForecastReadOnlyRepeatable ==
    [][ resp'.op = "get_forecast" =>
          /\ items' = items
          /\ orders' = orders
          /\ resp'.status = 200 =>
                \A t \in RunTimes :
                    ReturnsAt(t) =>
                        /\ Len(resp'.body) = Len(RunAt(t))
                        /\ \A i \in ItemIds(items) : Undated(resp'.body[i]) = Undated(RunAt(t)[i])
                        /\ tasks'[Len(tasks')].args = <<ReportText(RunAt(t))>> ]_vars

\* a run on a later day than the clock's first, over a store with sales
C14_Witness ==
    /\ Returned
    /\ now = MaxNow
    /\ Today(now) > Today(0)
    /\ \E i \in ItemIds(items) :
           /\ resp.body[i].avg_daily_sales > 0
           /\ resp.body[i].predicted_stockout_date # Forecast(items, orders, 0, i).predicted_stockout_date

\* C15: after any create_item requests, concurrent ones included, no two items
\* share a name.
C15_NamesUnique ==
    \A i, j \in ItemIds(items) : i # j => items[i].name # items[j].name

\* C16: a low-stock alert is enqueued only after the mutation that caused it has
\* committed: a request that has called add_task has already passed its commit.
C16_AlertAfterCommit ==
    \A r \in Reqs : req[r].s.bg # <<>> => req[r].pc = "done"

\* C17: of two concurrent create_order requests on one item, each with a quantity
\* <= the stock and with a combined quantity greater than it, at most one
\* succeeds, and the committed stock stays >= 0 (the two are the only Orders, so
\* that credited[i] is the stock both found).
C17_NoOversell ==
    \A r1, r2 \in Reqs :
        LET a == req[r1]
            b == req[r2]
        IN  (/\ r1 < r2
             /\ a.op = "create_order" /\ b.op = "create_order"
             /\ a.pc = "done" /\ b.pc = "done"
             /\ a.input.item_id = b.input.item_id
             /\ a.input.item_id \in ItemIds(items)
             /\ Len(orders) = Len(SelectSeq(orders, LAMBDA o : o.quantity > 0))
             /\ Len(orders) <= 2
             /\ a.input.quantity > 0 /\ b.input.quantity > 0
             /\ a.input.quantity <= credited[a.input.item_id]
             /\ b.input.quantity <= credited[a.input.item_id]
             /\ a.input.quantity + b.input.quantity > credited[a.input.item_id])
            => /\ ~(a.status = 200 /\ b.status = 200)
               /\ items[a.input.item_id].current_stock >= 0

\* C18: every Order record persisted, by create_order or by an upload_csv row,
\* has a quantity > 0.
C18_OrderQuantityPositive ==
    \A k \in 1..Len(orders) : orders[k].quantity > 0

\* the items the response of the run lists with days_until_out_of_stock < 7
CriticalItems == {i \in ItemIds(items) : resp.body[i].days_until_out_of_stock < 7}

\* C19: the report text of a forecast run is the header line followed by one line
\* per item whose days_until_out_of_stock < 7, in the listing order, with that
\* item's name, stock and days, and it holds the line "All inventory is currently
\* Healthy!" if and only if no item is critical (the line then follows the header).
C19_ReportText ==
    Returned =>
        /\ Len(tasks) = 1
        /\ tasks[1].fn = "send_analytics_sms"
        /\ LET text == tasks[1].args[1]
               healthy == <<"All inventory is currently Healthy!">>
           IN  /\ text[1] = <<"Warehouse Analytics Report:">>
               /\ (\E n \in 1..Len(text) : text[n] = healthy) <=> CriticalItems = {}
               /\ CriticalItems = {} => text = <<text[1], healthy>>
               /\ CriticalItems # {} =>
                     /\ Len(text) = 1 + Cardinality(CriticalItems)
                     /\ \A i \in CriticalItems :
                            text[1 + Cardinality({j \in CriticalItems : j <= i})] =
                                <<"-", items[i].name, items[i].current_stock, "left",
                                  resp.body[i].days_until_out_of_stock, "days">>

\* a run over two critical items with sales: the header and two lines
C19_Witness ==
    /\ Returned
    /\ PlainStore
    /\ Len(items) = 2
    /\ CriticalItems = {1, 2}
    /\ \A i \in CriticalItems : resp.body[i].avg_daily_sales > 0 /\ items[i].current_stock > 0
    /\ Len(tasks) = 1
    /\ Len(tasks[1].args[1]) = 3

====
